---- MODULE Spec2Model ----
(***************************************************************************)
(* Contract compliance checker: the regulatory knowledge base              *)
(* (regulatory_kb.py) and the analysis pipeline (main.py).                 *)
(*                                                                         *)
(* Python str values are TLA+ strings; Len, SubSeq and \o act on them      *)
(* character by character, so substring tests, lower(), upper() and        *)
(* len() are computed on the characters as the code computes them.         *)
(***************************************************************************)
EXTENDS Integers, Sequences, FiniteSets, TLC

VARIABLES
    regulatory_data,   \* CommercialRegulatoryKnowledgeBase.regulatory_data
    jurisdiction_map,  \* CommercialRegulatoryKnowledgeBase.jurisdiction_map
    industry_map,      \* CommercialRegulatoryKnowledgeBase.industry_map
    api_key,           \* OPENROUTER_API_KEY is set (module constant of main.py)
    call,              \* last stand-alone call of a function and what it returned
    pc,                \* position of analyze_compliance
    req,               \* the arguments analyze_compliance was called with
    jurisdiction,      \* local variable jurisdiction of analyze_compliance
    industry,          \* local variable industry of analyze_compliance
    regulations,       \* local variable regulations of analyze_compliance
    idx,               \* position of the for-loop over regulations
    missing_clauses_data, \* local variable of the loop body (registry clauses)
    missing_clauses,   \* local variable of the loop body (ClauseSuggestion list)
    results,           \* local variable results of analyze_compliance
    overall_score,     \* local variable overall_score of analyze_compliance
    overall_risk,      \* local variable overall_risk of analyze_compliance
    report,            \* the AnalysisResponse returned, or the error raised
    trace,             \* calls made to collaborators, in order
    replies,           \* HTTP 200 answers of the text service in this analysis
    now,               \* datetime.now(), in whole seconds
    analysis_id,       \* local variable analysis_id of analyze_compliance
    handed_ids,        \* analysis ids handed to chroma_db.store_contract, in order
    waiting            \* ids of the analyses between line 347 and line 358

vars == <<regulatory_data, jurisdiction_map, industry_map, api_key, call, pc,
          req, jurisdiction, industry, regulations, idx, missing_clauses_data,
          missing_clauses, results, overall_score, overall_risk, report,
          trace, replies, now, analysis_id, handed_ids, waiting>>

kbvars == <<regulatory_data, jurisdiction_map, industry_map>>

idvars == <<now, analysis_id, handed_ids, waiting>>

anvars == <<pc, req, jurisdiction, industry, regulations, idx,
            missing_clauses_data, missing_clauses, results, overall_score,
            overall_risk, report, trace, replies>>

(***************************************************************************)
(* Python str, list and dict primitives                                    *)
(***************************************************************************)
UpperChars == "ABCDEFGHIJKLMNOPQRSTUVWXYZ"

LowerChars == "abcdefghijklmnopqrstuvwxyz"

\* characters in code-point order (the part of ASCII the texts use)
CodePoints == "\n !#$%&'()+,-./0123456789:;<=>?@ABCDEFGHIJKLMNOPQRSTUVWXYZ[]^_abcdefghijklmnopqrstuvwxyz{|}~"

\* s.find(c) + 1, for a character c
IndexIn(c, s) ==
    IF \E i \in 1..Len(s) : SubSeq(s, i, i) = c
    THEN CHOOSE i \in 1..Len(s) :
            /\ SubSeq(s, i, i) = c
            /\ \A j \in 1..(i - 1) : SubSeq(s, j, j) # c
    ELSE 0

CharsOf(s) == {SubSeq(s, i, i) : i \in 1..Len(s)}

OrdTable == [c \in CharsOf(CodePoints) |-> IndexIn(c, CodePoints)]

LowerTable == [c \in CharsOf(UpperChars) |-> SubSeq(LowerChars, IndexIn(c, UpperChars), IndexIn(c, UpperChars))]

UpperTable == [c \in CharsOf(LowerChars) |-> SubSeq(UpperChars, IndexIn(c, LowerChars), IndexIn(c, LowerChars))]

\* ord(c), up to the characters left out of CodePoints
Ord(c) == OrdTable[c]

LowerChar(c) == IF c \in DOMAIN LowerTable THEN LowerTable[c] ELSE c

UpperChar(c) == IF c \in DOMAIN UpperTable THEN UpperTable[c] ELSE c

RECURSIVE Lower(_)
\* str.lower()
Lower(s) == IF s = "" THEN "" ELSE LowerChar(SubSeq(s, 1, 1)) \o Lower(Tail(s))

RECURSIVE Upper(_)
\* str.upper()
Upper(s) == IF s = "" THEN "" ELSE UpperChar(SubSeq(s, 1, 1)) \o Upper(Tail(s))

\* t in s, for two str
Contains(t, s) ==
    \E i \in 1..(Len(s) - Len(t) + 1) : SubSeq(s, i, i + Len(t) - 1) = t

\* any(term in s for term in terms)
AnyIn(terms, s) == \E k \in 1..Len(terms) : Contains(terms[k], s)

\* s[:n]
Prefix(s, n) == SubSeq(s, 1, IF Len(s) < n THEN Len(s) ELSE n)

RECURSIVE StrLess(_, _)
\* a < b, for two str (by code point, the shorter first on a tie)
StrLess(a, b) ==
    IF b = "" THEN FALSE
    ELSE IF a = "" THEN TRUE
    ELSE LET x == Ord(SubSeq(a, 1, 1))
             y == Ord(SubSeq(b, 1, 1))
         IN  IF x # y THEN x < y ELSE StrLess(Tail(a), Tail(b))

RECURSIVE Sorted(_)
\* sorted(list(S)), for a set of str
Sorted(S) ==
    IF S = {} THEN <<>>
    ELSE LET m == CHOOSE x \in S : \A y \in S \ {x} : StrLess(x, y)
         IN  <<m>> \o Sorted(S \ {m})

\* set(l), for a list
ToSet(l) == {l[k] : k \in 1..Len(l)}

\* a lookup where an absent key answers with the entry of some other key
DictGetSomeEntry(d, key, default) ==
    IF key \in DOMAIN d THEN d[key] ELSE d[CHOOSE k \in DOMAIN d : TRUE]

\* d.get(key, default)
DictGet(d, key, default) == IF key \in DOMAIN d THEN d[key] ELSE default

RECURSIVE Join(_, _)
\* sep.join(l)
Join(sep, l) ==
    IF Len(l) = 0 THEN ""
    ELSE IF Len(l) = 1 THEN l[1]
    ELSE l[1] \o sep \o Join(sep, Tail(l))

(***************************************************************************)
(* regulatory_kb.py: the registry                                          *)
(***************************************************************************)
Clause(name, desc, risk, reqs, cite, jur, ind) ==
    [clause |-> name, description |-> desc, risk_level |-> risk,
     requirements |-> reqs, legal_citation |-> cite,
     jurisdictions |-> jur, industries |-> ind]

_initialize_commercial_regulations ==
    [r \in {"GLBA", "FCRA", "TILA", "EFTA", "CCPA_CPRA", "NY_DFS"} |->
      CASE r = "GLBA" -> <<
            Clause("Financial Privacy Notice",
                   "Gramm-Leach-Bliley Act privacy requirements for financial institutions",
                   "high",
                   <<"Privacy notice delivery", "Opt-out mechanisms",
                     "Information sharing policies", "Safeguards rule compliance",
                     "Annual privacy notices">>,
                   "15 U.S.C. § 6801-6809",
                   <<"US">>,
                   <<"financial", "banking", "lending", "insurance">>),
            Clause("Data Safeguards Program",
                   "Information security program for customer data protection",
                   "high",
                   <<"Written security program", "Employee training",
                     "Access controls", "Data encryption", "Incident response plan">>,
                   "16 CFR Part 314",
                   <<"US">>,
                   <<"financial", "banking", "lending">>) >>
        [] r = "FCRA" -> <<
            Clause("Credit Reporting Authorization",
                   "Fair Credit Reporting Act requirements for credit checks",
                   "high",
                   <<"Consumer authorization", "Permissible purpose certification",
                     "Adverse action notices", "Dispute investigation procedures",
                     "Accuracy requirements">>,
                   "15 U.S.C. § 1681 et seq.",
                   <<"US">>,
                   <<"financial", "employment", "lending", "housing">>) >>
        [] r = "TILA" -> <<
            Clause("Truth in Lending Disclosures",
                   "Regulation Z requirements for loan cost disclosures",
                   "high",
                   <<"APR disclosure", "Finance charge calculation",
                     "Payment schedule", "Total payments disclosure",
                     "Right of rescission">>,
                   "15 U.S.C. § 1601 et seq.",
                   <<"US">>,
                   <<"lending", "financial", "auto_finance", "mortgage">>) >>
        [] r = "EFTA" -> <<
            Clause("Electronic Fund Transfer Authorization",
                   "Regulation E requirements for electronic payments",
                   "medium",
                   <<"EFT authorization", "Error resolution procedures",
                     "Liability limitations", "Receipt requirements",
                     "Periodic statements">>,
                   "15 U.S.C. § 1693 et seq.",
                   <<"US">>,
                   <<"financial", "banking", "payment_processing">>) >>
        [] r = "CCPA_CPRA" -> <<
            Clause("California Consumer Privacy Rights",
                   "California Consumer Privacy Act and Privacy Rights Act compliance",
                   "high",
                   <<"Right to know disclosures", "Right to delete procedures",
                     "Right to opt-out of sales", "Non-discrimination policy",
                     "Data processing agreements">>,
                   "Cal. Civ. Code § 1798.100 et seq.",
                   <<"US_CA", "US">>,
                   <<"all">>) >>
        [] r = "NY_DFS" -> <<
            Clause("NYDFS Cybersecurity Requirements",
                   "New York Department of Financial Services cybersecurity regulation",
                   "high",
                   <<"Cybersecurity program", "Chief Information Security Officer",
                     "Penetration testing", "Audit trail systems",
                     "Incident response plan">>,
                   "23 NYCRR Part 500",
                   <<"US_NY", "US">>,
                   <<"financial", "insurance", "banking">>) >>]

_initialize_jurisdiction_map ==
    [j \in {"US", "US_CA", "US_NY", "global"} |->
      CASE j = "US" -> <<"GLBA", "FCRA", "TILA", "EFTA", "CCPA_CPRA">>
        [] j = "US_CA" -> <<"GLBA", "FCRA", "TILA", "EFTA", "CCPA_CPRA", "NY_DFS">>
        [] j = "US_NY" -> <<"GLBA", "FCRA", "TILA", "EFTA", "CCPA_CPRA", "NY_DFS">>
        [] j = "global" -> <<"CCPA_CPRA">>]

_initialize_industry_map ==
    [i \in {"financial", "banking", "lending", "insurance", "auto_finance", "general"} |->
      CASE i = "financial" -> <<"GLBA", "FCRA", "TILA", "EFTA", "NY_DFS">>
        [] i = "banking" -> <<"GLBA", "FCRA", "TILA", "EFTA", "NY_DFS">>
        [] i = "lending" -> <<"GLBA", "FCRA", "TILA", "EFTA">>
        [] i = "insurance" -> <<"GLBA", "NY_DFS">>
        [] i = "auto_finance" -> <<"GLBA", "FCRA", "TILA", "EFTA">>
        [] i = "general" -> <<"CCPA_CPRA">>]

(***************************************************************************)
(* regulatory_kb.py: the applicability resolver                            *)
(***************************************************************************)
financial_terms == <<"loan", "financing", "credit", "interest rate", "apr", "payment", "debt">>

privacy_terms == <<"personal data", "privacy", "confidential", "data processing", "consumer information">>

security_terms == <<"security", "cyber", "data protection", "encryption", "access control">>

\* the argument is the lowercased contract text
_detect_regulations_from_content(contract_text) ==
    (IF AnyIn(financial_terms, contract_text)
        THEN {"GLBA", "FCRA", "TILA", "EFTA"} ELSE {})
    \cup (IF AnyIn(privacy_terms, contract_text) THEN {"CCPA_CPRA"} ELSE {})
    \cup (IF AnyIn(security_terms, contract_text) THEN {"NY_DFS"} ELSE {})

\* a compatibility check that forgets the jurisdiction
InappropriateByIndustryOnly(regdata, regulation, jur, ind) ==
    LET reg_data == DictGet(regdata, regulation, <<>>)
    IN  IF reg_data = <<>> THEN FALSE
        ELSE LET allowed_industries == ToSet(reg_data[1].industries)
             IN  ind \notin allowed_industries /\ "all" \notin allowed_industries

\* the regulation is put in inappropriate_regs
Inappropriate(regdata, regulation, jur, ind) ==
    LET reg_data == DictGet(regdata, regulation, <<>>)
    IN  IF reg_data = <<>> THEN FALSE
        ELSE LET first_clause == reg_data[1]
                 allowed_jurisdictions == ToSet(first_clause.jurisdictions)
                 allowed_industries == ToSet(first_clause.industries)
             IN  \/ (jur \notin allowed_jurisdictions /\ "global" \notin allowed_jurisdictions)
                 \/ (ind \notin allowed_industries /\ "all" \notin allowed_industries)

\* a filter that forgets the industry check
FilterJurisdictionOnly(regdata, regs, contract_text, jur, ind) ==
    {r \in regs :
        LET reg_data == DictGet(regdata, r, <<>>)
        IN  \/ reg_data = <<>>
            \/ jur \in ToSet(reg_data[1].jurisdictions)
            \/ "global" \in ToSet(reg_data[1].jurisdictions)}

\* the set `regulations` as the call leaves it (difference_update in place)
_filter_inappropriate_regulations(regdata, regs, contract_text, jur, ind) ==
    regs \ {r \in regs : Inappropriate(regdata, r, jur, ind)}

\* applicable_regulations after the jurisdiction and the industry lookups
SeedRegulations(jmap, imap, jur, ind) ==
    ToSet(DictGet(jmap, jur, <<>>)) \cup ToSet(DictGet(imap, ind, <<>>))

\* a resolver that returns the set without filtering it
GetApplicableUnfiltered(regdata, jmap, imap, contract_text, jur, ind) ==
    Sorted(SeedRegulations(jmap, imap, jur, ind)
           \cup _detect_regulations_from_content(Lower(contract_text)))

get_applicable_regulations(regdata, jmap, imap, contract_text, jur, ind) ==
    LET contract_lower == Lower(contract_text)
        seeded == SeedRegulations(jmap, imap, jur, ind)
        applicable_regulations == seeded \cup _detect_regulations_from_content(contract_lower)
    IN  Sorted(_filter_inappropriate_regulations(regdata, applicable_regulations,
                                                 contract_lower, jur, ind))

(***************************************************************************)
(* Inputs                                                                  *)
(***************************************************************************)
NoText == "agreement between the parties"

LoanText == "Loan financing at an interest rate"

PrivacyText == "APR and privacy policy of the company"

SecurityText == "Encryption and access control in California"

MixedText == "Personal data security, credit and payment"

Texts == {NoText, LoanText, PrivacyText, SecurityText, MixedText}

Jurisdictions == {"US", "US_CA", "US_NY", "global", "EU"}

Industries == {"financial", "banking", "lending", "insurance", "auto_finance",
               "general", "payment_processing", "retail", "employment", "mortgage"}

\* Optional[List[str]]: None, or a list
NoList == [none |-> TRUE, list |-> <<>>]

Some(l) == [none |-> FALSE, list |-> l]

(***************************************************************************)
(* regulatory_kb.py: the clause presence detector                          *)
(***************************************************************************)
Digits == "0123456789"

\* \w of the regular expression
IsWordChar(c) ==
    c \in DOMAIN UpperTable \/ c \in DOMAIN LowerTable \/ c \in CharsOf(Digits) \/ c = "_"

IsSpace(c) == c = " " \/ c = "\n" \/ c = "\t"

RECURSIVE WordRuns(_, _)
\* the maximal runs of \w characters of s, in order (cur: the run being read)
WordRuns(s, cur) ==
    IF s = "" THEN (IF cur = "" THEN <<>> ELSE <<cur>>)
    ELSE LET c == SubSeq(s, 1, 1)
         IN  IF IsWordChar(c) THEN WordRuns(Tail(s), cur \o c)
             ELSE (IF cur = "" THEN <<>> ELSE <<cur>>) \o WordRuns(Tail(s), "")

RECURSIVE Split(_, _)
\* str.split()
Split(s, cur) ==
    IF s = "" THEN (IF cur = "" THEN <<>> ELSE <<cur>>)
    ELSE LET c == SubSeq(s, 1, 1)
         IN  IF ~IsSpace(c) THEN Split(Tail(s), cur \o c)
             ELSE (IF cur = "" THEN <<>> ELSE <<cur>>) \o Split(Tail(s), "")

AllLower(w) == \A i \in 1..Len(w) : SubSeq(w, i, i) \in DOMAIN UpperTable

RECURSIVE SelectStr(_, _)
\* [x for x in l if x in keep], keep a set of positions' values
SelectStr(l, keep) ==
    IF Len(l) = 0 THEN <<>>
    ELSE (IF l[1] \in keep THEN <<l[1]>> ELSE <<>>) \o SelectStr(Tail(l), keep)

stop_words == {"the", "and", "or", "but", "in", "on", "at", "to", "for", "of", "with", "by"}

\* re.findall(r'\b[a-z]{3,}\b', text.lower()), stop words dropped, [:5]
_extract_keywords(text) ==
    LET runs == WordRuns(Lower(text), "")
        words == SelectStr(runs, {w \in ToSet(runs) : AllLower(w) /\ Len(w) >= 3})
        kept == SelectStr(words, ToSet(words) \ stop_words)
    IN  SubSeq(kept, 1, IF Len(kept) < 5 THEN Len(kept) ELSE 5)

concept_map ==
    [c \in {"Financial Privacy Notice", "Credit Reporting Authorization",
            "Data Safeguards Program", "Truth in Lending Disclosures"} |->
      CASE c = "Financial Privacy Notice" ->
                <<"privacy policy", "data sharing", "opt out", "confidentiality">>
        [] c = "Credit Reporting Authorization" ->
                <<"credit check", "background check", "consumer report", "authorization">>
        [] c = "Data Safeguards Program" ->
                <<"security program", "data protection", "encryption", "access control">>
        [] c = "Truth in Lending Disclosures" ->
                <<"apr", "annual percentage rate", "finance charge", "disclosure">>]

\* sum(1 for x in l if x in contract_text)
CountIn(l, contract_text) ==
    Cardinality({k \in 1..Len(l) : Contains(l[k], contract_text)})

_check_semantic_concepts(clause_data, contract_text) ==
    CountIn(DictGet(concept_map, clause_data.clause, <<>>), contract_text)

DirectMatches(clause_data, contract_text) ==
    CountIn(_extract_keywords(Lower(clause_data.clause)), contract_text)

RequirementMatches(clause_data, contract_text) ==
    LET requirements == [k \in 1..Len(clause_data.requirements) |->
                            Lower(clause_data.requirements[k])]
        first3 == SubSeq(requirements, 1,
                         IF Len(requirements) < 3 THEN Len(requirements) ELSE 3)
    IN  Cardinality({k \in 1..Len(first3) :
                        AnyIn(Split(first3[k], ""), contract_text)})

\* a decision that asks for more than the threshold
IsClausePresentAboveThreshold(clause_data, contract_text) ==
    5 * DirectMatches(clause_data, contract_text)
        + 3 * RequirementMatches(clause_data, contract_text)
        + 2 * _check_semantic_concepts(clause_data, contract_text) > 10

\* total_score >= 1.0 with total_score = d*0.5 + r*0.3 + c*0.2; the floating-point
\* sum and the comparison agree with 5d + 3r + 2c >= 10 for d <= 5, r <= 3, c <= 4
_is_clause_present(clause_data, contract_text) ==
    5 * DirectMatches(clause_data, contract_text)
        + 3 * RequirementMatches(clause_data, contract_text)
        + 2 * _check_semantic_concepts(clause_data, contract_text) >= 10

RECURSIVE MissingOf(_, _)
MissingOf(clauses, contract_lower) ==
    IF Len(clauses) = 0 THEN <<>>
    ELSE (IF _is_clause_present(clauses[1], contract_lower) THEN <<>> ELSE <<clauses[1]>>)
         \o MissingOf(Tail(clauses), contract_lower)

\* a detector whose list outlives the call (a mutable default argument): it
\* still holds the entries of the call before
GetMissingClausesAccumulating(regdata, contract_text, regulation) ==
    IF regulation \notin DOMAIN regdata THEN <<>>
    ELSE missing_clauses_data \o MissingOf(regdata[regulation], Lower(contract_text))

get_missing_clauses(regdata, contract_text, regulation) ==
    IF regulation \notin DOMAIN regdata THEN <<>>
    ELSE MissingOf(regdata[regulation], Lower(contract_text))

\* a content analysis that runs no check at all
NoContentAnalysis(contract_text, regulation) ==
    [issues |-> <<>>, recommendations |-> <<>>]

analyze_contract_content(contract_text, regulation) ==
    LET contract_lower == Lower(contract_text)
        has(t) == Contains(t, contract_lower)
        pair(cond, issue, rec) ==
            IF cond THEN <<[issue |-> issue, rec |-> rec]>> ELSE <<>>
        found ==
            IF regulation = "GLBA" THEN
                pair(~has("privacy") /\ ~has("confidential"),
                     "Missing financial privacy provisions",
                     "Add GLBA-compliant privacy notice clause")
                \o pair(~has("opt-out") /\ ~has("opt out"),
                        "Missing opt-out mechanisms for information sharing",
                        "Include GLBA opt-out provisions")
            ELSE IF regulation = "FCRA" THEN
                pair(has("credit") /\ ~has("authorization"),
                     "Missing credit check authorization",
                     "Add FCRA-compliant authorization clause")
                \o pair(~has("adverse action"),
                        "Missing adverse action notice procedures",
                        "Include FCRA adverse action requirements")
            ELSE IF regulation = "TILA" THEN
                pair(~has("apr") /\ ~has("annual percentage rate"),
                     "Missing APR disclosure",
                     "Add TILA-required APR disclosure")
                \o pair(~has("finance charge"),
                        "Missing finance charge disclosure",
                        "Include TILA finance charge calculations")
            ELSE <<>>
    IN  [issues |-> [k \in 1..Len(found) |-> found[k].issue],
         recommendations |-> [k \in 1..Len(found) |-> found[k].rec]]

(***************************************************************************)
(* main.py: the generative text service                                    *)
(***************************************************************************)
NotConfiguredText == "AI service not configured. Using rule-based analysis."

CompletedText == "AI analysis completed. Please review the compliance recommendations."

\* what the HTTP call does: it raises (timeout, connection error, malformed
\* body), answers with a status other than 200, or answers 200 with a content
Raises == [kind |-> "raise", content |-> ""]

StatusError == [kind |-> "status", content |-> ""]

Ok(content) == [kind |-> "ok", content |-> content]

RECURSIVE LStrip(_)
LStrip(s) == IF s # "" /\ IsSpace(SubSeq(s, 1, 1)) THEN LStrip(Tail(s)) ELSE s

RECURSIVE RStrip(_)
RStrip(s) ==
    IF s # "" /\ IsSpace(SubSeq(s, Len(s), Len(s)))
    THEN RStrip(SubSeq(s, 1, Len(s) - 1)) ELSE s

\* str.strip()
Strip(s) == RStrip(LStrip(s))

query_openrouter(key, outcome) ==
    IF ~key THEN NotConfiguredText
    ELSE IF outcome.kind = "raise" THEN CompletedText
    ELSE IF outcome.kind = "ok" THEN Strip(outcome.content)
    ELSE CompletedText

\* the template of the fallback clause
FallbackClause(regulation, clause, requirements) ==
    "\n" \o Upper(clause) \o "\n\n"
    \o "The Parties shall comply with all applicable requirements under "
    \o regulation \o " regarding " \o Lower(clause)
    \o ", including but not limited to: " \o Join(", ", requirements) \o ".\n\n"
    \o "Appropriate technical and organizational measures shall be implemented to ensure ongoing compliance. "
    \o "All compliance activities shall be properly documented and made available for audit upon request. "
    \o "In case of non-compliance, the Parties shall take immediate corrective action and notify relevant stakeholders as required by applicable law.\n"

\* a generator with no fallback: whatever the service wrapper returns is the clause
GenerateNoFallback(key, regulation, clause, requirements, outcome) ==
    query_openrouter(key, outcome)

generate_ai_clause_text(key, regulation, clause, requirements, outcome) ==
    LET response == query_openrouter(key, outcome)
    IN  IF response = "" \/ Len(response) < 50
            \/ Contains("AI analysis completed", response)
        THEN FallbackClause(regulation, clause, requirements)
        ELSE response

(***************************************************************************)
(* What the service may answer, and json.loads of it                       *)
(***************************************************************************)
BlankReply == "  "

ShortReply == "See counsel."

ClauseReply == "The Parties shall comply with applicable law and shall keep records for audit. "

JsonList == "[]"

JsonString == "\"high\""

JsonEmpty == "{}"

JsonContext == "{\"jurisdiction\": \"US_CA\", \"industry\": \"lending\"}"

JsonHigh == "{\"risk_assessment\": \"high\"}"

JsonLow == "{\"risk_assessment\": \"low\"}"

JsonNull == "{\"risk_assessment\": null}"

JsonFull == "{\"risk_assessment\": \"critical\", \"enhanced_issues\": [\"No audit clause\", \"No retention schedule\"], \"recommendations\": [\"Add audit clause\"], \"legal_references\": [\"12 CFR 1026\"]}"

Contents == {BlankReply, ShortReply, ClauseReply, JsonList, JsonString, JsonEmpty,
             JsonContext, JsonHigh, JsonLow, JsonNull, JsonFull}

\* Python values read from JSON: t is the Python type, v the value; a dict
\* also has its keys in insertion order
JStr(x) == [t |-> "str", v |-> x]

JNull == [t |-> "NoneType", v |-> <<>>]

JList(l) == [t |-> "list", v |-> l]

JDict(keys, f) == [t |-> "dict", v |-> f, keys |-> keys]

JInvalid == [t |-> "JSONDecodeError", v |-> <<>>]

StrList(l) == JList([k \in 1..Len(l) |-> JStr(l[k])])

\* json.loads(s) on the answers above; any other text of the model is not JSON
JsonLoads(s) ==
    CASE s = JsonList -> JList(<<>>)
      [] s = JsonString -> JStr("high")
      [] s = JsonEmpty -> JDict(<<>>, [k \in {} |-> JNull])
      [] s = JsonContext ->
            JDict(<<"jurisdiction", "industry">>,
                  [jurisdiction |-> JStr("US_CA"), industry |-> JStr("lending")])
      [] s = JsonHigh -> JDict(<<"risk_assessment">>, [risk_assessment |-> JStr("high")])
      [] s = JsonLow -> JDict(<<"risk_assessment">>, [risk_assessment |-> JStr("low")])
      [] s = JsonNull -> JDict(<<"risk_assessment">>, [risk_assessment |-> JNull])
      [] s = JsonFull ->
            JDict(<<"risk_assessment", "enhanced_issues", "recommendations",
                    "legal_references">>,
                  [risk_assessment |-> JStr("critical"),
                   enhanced_issues |-> StrList(<<"No audit clause", "No retention schedule">>),
                   recommendations |-> StrList(<<"Add audit clause">>),
                   legal_references |-> StrList(<<"12 CFR 1026">>)])
      [] OTHER -> JInvalid

(***************************************************************************)
(* main.py: context analysis and AI enhancement                            *)
(***************************************************************************)
context_financial_terms == <<"loan", "financing", "credit", "interest", "payment", "debt">>

\* the except branch of analyze_contract_context
FallbackContext(contract_text) ==
    LET contract_lower == Lower(contract_text)
        has(t) == Contains(t, contract_lower)
        fin == AnyIn(context_financial_terms, contract_lower)
    IN  JDict(<<"jurisdiction", "industry", "contract_type", "key_concerns">>,
              [jurisdiction |->
                    JStr(IF has("new york") \/ has("ny") THEN "US_NY"
                         ELSE IF has("california") \/ has("ca") THEN "US_CA"
                         ELSE "US"),
               industry |-> JStr(IF fin THEN "financial" ELSE "general"),
               contract_type |-> JStr(IF fin THEN "loan" ELSE "service"),
               key_concerns |->
                    StrList((IF fin THEN <<"financial compliance">> ELSE <<>>)
                            \o (IF has("data") \/ has("privacy")
                                THEN <<"data privacy">> ELSE <<>>)
                            \o (IF has("security") \/ has("cyber")
                                THEN <<"cybersecurity">> ELSE <<>>))])

\* whatever json.loads gives is returned, of any type; the fallback is for a
\* text that is not JSON
analyze_contract_context(key, contract_text, outcome) ==
    LET parsed == JsonLoads(query_openrouter(key, outcome))
    IN  IF parsed.t # "JSONDecodeError" THEN parsed ELSE FallbackContext(contract_text)

\* list.extend(value): the list extended with the entries of a list, the
\* characters of a str or the keys of a dict, or raised when value is not
\* iterable
Extend(l, value) ==
    IF value.t = "list"
        THEN [raised |-> FALSE, list |-> l \o value.v]
    ELSE IF value.t = "str"
        THEN [raised |-> FALSE,
              list |-> l \o [k \in 1..Len(value.v) |-> JStr(SubSeq(value.v, k, k))]]
    ELSE IF value.t = "dict"
        THEN [raised |-> FALSE,
              list |-> l \o [k \in 1..Len(value.keys) |-> JStr(value.keys[k])]]
    ELSE [raised |-> TRUE, list |-> l]

\* basic_analysis after the merge; the dict is changed in place, so what was
\* merged before an exception stays merged
enhance_compliance_analysis(key, basic_analysis, outcome) ==
    LET ai_analysis == JsonLoads(query_openrouter(key, outcome))
        has(k) == k \in DOMAIN ai_analysis.v
        e1 == IF has("enhanced_issues")
              THEN Extend(basic_analysis.issues, ai_analysis.v["enhanced_issues"])
              ELSE [raised |-> FALSE, list |-> basic_analysis.issues]
        b1 == [basic_analysis EXCEPT !.issues = e1.list]
        e2 == IF has("recommendations")
              THEN Extend(b1.recommendations, ai_analysis.v["recommendations"])
              ELSE [raised |-> FALSE, list |-> b1.recommendations]
        b2 == [b1 EXCEPT !.recommendations = e2.list]
        b3 == IF has("risk_assessment")
              THEN [b2 EXCEPT !.risk_assessment = ai_analysis.v["risk_assessment"]]
              ELSE b2
        b4 == IF has("legal_references")
              THEN [b3 EXCEPT !.legal_references = ai_analysis.v["legal_references"]]
              ELSE b3
    IN  IF ai_analysis.t # "dict" THEN basic_analysis
        ELSE IF e1.raised THEN basic_analysis
        ELSE IF e2.raised THEN b1
        ELSE b4

(***************************************************************************)
(* main.py: scores and the loop body of analyze_compliance                 *)
(***************************************************************************)
RECURSIVE GCD(_, _)
GCD(a, b) == IF b = 0 THEN a ELSE GCD(b, a % b)

\* the fraction n/d in lowest terms (d > 0, n >= 0)
Rat(n, d) == [n |-> n \div GCD(n, d), d |-> d \div GCD(n, d)]

RatLess(a, b) == a.n * b.d < b.n * a.d

RatAdd(a, b) == Rat(a.n * b.d + b.n * a.d, a.d * b.d)

RatMax(a, b) == IF RatLess(a, b) THEN b ELSE a

\* a score that leaves out the weight 0.8 of the missing share
ComplianceScoreUnweighted(missing_count, total_clauses) ==
    RatMax(Rat(1, 10), Rat(total_clauses - missing_count, total_clauses))

\* a score whose total leaves out the 3 added to the missing clauses
ComplianceScoreWithoutBase(missing_count, total_clauses) ==
    IF total_clauses - 3 = 0 THEN Rat(1, 1)
    ELSE RatMax(Rat(1, 10), Rat(10 * (total_clauses - 3) - 8 * missing_count,
                                10 * (total_clauses - 3)))

\* max(0.1, 1.0 - (missing_count / total_clauses * 0.8)), as an exact fraction
ComplianceScore(missing_count, total_clauses) ==
    RatMax(Rat(1, 10), Rat(10 * total_clauses - 8 * missing_count, 10 * total_clauses))

\* str(n) for 0 <= n <= 99
Str(n) ==
    IF n < 10 THEN SubSeq(Digits, n + 1, n + 1)
    ELSE SubSeq(Digits, (n \div 10) + 1, (n \div 10) + 1)
         \o SubSeq(Digits, (n % 10) + 1, (n % 10) + 1)

ClauseSuggestion(clause_data, suggested_text) ==
    [clause |-> clause_data.clause, description |-> clause_data.description,
     risk_level |-> clause_data.risk_level, requirements |-> clause_data.requirements,
     suggested_text |-> suggested_text, legal_citation |-> clause_data.legal_citation]

\* a truncation that keeps the last n entries
LastEntries(l, n) == SubSeq(l, IF Len(l) < n THEN 1 ELSE Len(l) - n + 1, Len(l))

First(l, n) == SubSeq(l, 1, IF Len(l) < n THEN Len(l) ELSE n)

\* findings that put the total before the high-risk count and recommend the
\* clauses last first
InitialFindingsReordered(regulation, suggestions) ==
    LET high_risk_count ==
            Cardinality({k \in 1..Len(suggestions) : suggestions[k].risk_level = "high"})
        top == First(suggestions, 3)
    IN  IF Len(suggestions) = 0 THEN [issues |-> <<>>, recommendations |-> <<>>]
        ELSE [issues |->
                <<"Total " \o Str(Len(suggestions)) \o " " \o regulation \o " compliance gaps">>
                \o (IF high_risk_count > 0
                    THEN <<"Missing " \o Str(high_risk_count) \o " high-risk compliance clauses">>
                    ELSE <<>>),
              recommendations |->
                <<"Implement comprehensive " \o regulation \o " compliance section">>
                \o [k \in 1..Len(top) |->
                        "Add '" \o top[Len(top) + 1 - k].clause \o "' clause"]]

\* issues and recommendations before the content checks
InitialFindings(regulation, suggestions) ==
    LET high_risk_count ==
            Cardinality({k \in 1..Len(suggestions) : suggestions[k].risk_level = "high"})
        top == First(suggestions, 3)
    IN  IF Len(suggestions) = 0 THEN [issues |-> <<>>, recommendations |-> <<>>]
        ELSE [issues |->
                (IF high_risk_count > 0
                 THEN <<"Missing " \o Str(high_risk_count) \o " high-risk compliance clauses">>
                 ELSE <<>>)
                \o <<"Total " \o Str(Len(suggestions)) \o " " \o regulation \o " compliance gaps">>,
              recommendations |->
                <<"Implement comprehensive " \o regulation \o " compliance section">>
                \o [k \in 1..Len(top) |-> "Add '" \o top[k].clause \o "' clause"]]

\* a basic analysis whose risk follows the risk of the missing clauses
BasicAnalysisRiskFromClauses(contract_text, regulation, missing_data, suggestions) ==
    LET found == InitialFindings(regulation, suggestions)
        content_analysis == analyze_contract_content(contract_text, regulation)
    IN  [compliance_score |-> ComplianceScore(Len(suggestions), Len(missing_data) + 3),
         issues |-> StrList(found.issues \o content_analysis.issues).v,
         recommendations |->
            StrList(found.recommendations \o content_analysis.recommendations).v,
         missing_clauses |-> missing_data,
         risk_assessment |->
            JStr(IF \E k \in 1..Len(suggestions) : suggestions[k].risk_level = "high"
                 THEN "high" ELSE "low"),
         legal_references |-> JList(<<>>)]

\* basic_analysis of the loop body
BasicAnalysis(contract_text, regulation, missing_data, suggestions) ==
    LET found == InitialFindings(regulation, suggestions)
        content_analysis == analyze_contract_content(contract_text, regulation)
    IN  [compliance_score |-> ComplianceScore(Len(suggestions), Len(missing_data) + 3),
         issues |-> StrList(found.issues \o content_analysis.issues).v,
         recommendations |->
            StrList(found.recommendations \o content_analysis.recommendations).v,
         missing_clauses |-> missing_data,
         risk_assessment |-> JStr("medium"),
         legal_references |-> JList(<<>>)]

IsStrList(value) ==
    value.t = "list" /\ \A k \in 1..Len(value.v) : value.v[k].t = "str"

Unwrap(l) == [k \in 1..Len(l) |-> l[k].v]

\* pydantic accepts the fields of ComplianceResult
ResultValidates(enhanced) ==
    /\ enhanced.risk_assessment.t = "str"
    /\ IsStrList(JList(First(enhanced.issues, 5)))
    /\ IsStrList(JList(First(enhanced.recommendations, 5)))
    /\ IsStrList(enhanced.legal_references)

ComplianceResult(regulation, enhanced, suggestions) ==
    [regulation |-> regulation,
     compliance_score |-> enhanced.compliance_score,
     risk_assessment |-> enhanced.risk_assessment.v,
     issues |-> Unwrap(First(enhanced.issues, 5)),
     recommendations |-> Unwrap(First(enhanced.recommendations, 5)),
     missing_clauses |-> suggestions,
     legal_references |-> Unwrap(enhanced.legal_references.v)]

RECURSIVE SumScores(_)
SumScores(rs) ==
    IF Len(rs) = 0 THEN Rat(0, 1)
    ELSE RatAdd(rs[1].compliance_score, SumScores(Tail(rs)))

\* a total that is never divided by the number of results
OverallScoreUndivided(rs) == SumScores(rs)

\* sum(...) / len(results) if results else 0.0
OverallScore(rs) ==
    IF Len(rs) = 0 THEN Rat(0, 1)
    ELSE LET sum == SumScores(rs) IN Rat(sum.n, sum.d * Len(rs))

\* an aggregation that looks at the first result only
OverallRiskOfFirst(rs) ==
    IF Len(rs) = 0 THEN "low"
    ELSE IF rs[1].risk_assessment \in {"high", "medium"} THEN rs[1].risk_assessment
    ELSE "low"

OverallRisk(rs) ==
    IF \E k \in 1..Len(rs) : rs[k].risk_assessment = "high" THEN "high"
    ELSE IF \E k \in 1..Len(rs) : rs[k].risk_assessment = "medium" THEN "medium"
    ELSE "low"

\* two digits, zero-padded: the %S of strftime
TwoDigits(n) == (IF n < 10 THEN "0" ELSE "") \o Str(n)

\* f"analysis_{datetime.now().strftime('%Y%m%d_%H%M%S')}" within the first
\* minute of a day: the stamp has the resolution of one second
AnalysisId(second) == "analysis_20260101_0000" \o TwoDigits(second)

NoRequest == [contract_text |-> "", regulations |-> NoList, jurisdiction |-> "", industry |-> ""]

NoReport == [status |-> "none"]

(***************************************************************************)
(* Stand-alone calls of the knowledge base and of the clause generator     *)
(***************************************************************************)
MaxReplies == 1

Outcomes == {Raises, StatusError} \cup {Ok(c) : c \in Contents}

InitKB ==
    /\ regulatory_data = _initialize_commercial_regulations
    /\ jurisdiction_map = _initialize_jurisdiction_map
    /\ industry_map = _initialize_industry_map

InitIdle ==
    /\ pc = "idle"
    /\ req = NoRequest
    /\ jurisdiction = ""
    /\ industry = ""
    /\ regulations = <<>>
    /\ idx = 0
    /\ missing_clauses_data = <<>>
    /\ missing_clauses = <<>>
    /\ results = <<>>
    /\ overall_score = Rat(0, 1)
    /\ overall_risk = ""
    /\ report = NoReport
    /\ trace = <<>>
    /\ replies = 0
    /\ now = 0
    /\ analysis_id = ""
    /\ handed_ids = <<>>
    /\ waiting = <<>>

Init ==
    /\ InitKB
    /\ InitIdle
    /\ api_key \in BOOLEAN
    /\ call = [op |-> "none"]

CallGetApplicableRegulations ==
    \E t \in Texts, j \in Jurisdictions, i \in Industries :
        /\ call' = [op |-> "get_applicable_regulations",
                    contract_text |-> t, jurisdiction |-> j, industry |-> i,
                    ret |-> get_applicable_regulations(regulatory_data,
                                jurisdiction_map, industry_map, t, j, i)]
        /\ UNCHANGED <<kbvars, idvars, api_key, anvars>>

CallGenerateAiClauseText ==
    \E r \in DOMAIN regulatory_data, o \in Outcomes :
        \E k \in 1..Len(regulatory_data[r]) :
            LET c == regulatory_data[r][k]
            IN  /\ call' = [op |-> "generate_ai_clause_text",
                            regulation |-> r, clause |-> c.clause,
                            requirements |-> c.requirements, outcome |-> o,
                            ret |-> generate_ai_clause_text(api_key, r, c.clause,
                                                            c.requirements, o)]
                /\ UNCHANGED <<kbvars, idvars, api_key, anvars>>

\* the identifiers get_missing_clauses is asked about: the registry's and one
\* the registry does not hold
AskedRegulations == DOMAIN regulatory_data \cup {"HIPAA"}

CallGetMissingClauses ==
    \E t \in Texts, r \in AskedRegulations :
        /\ call' = [op |-> "get_missing_clauses", contract_text |-> t, regulation |-> r,
                    ret |-> get_missing_clauses(regulatory_data, t, r)]
        /\ UNCHANGED <<kbvars, idvars, api_key, anvars>>

NextCalls ==
    \/ CallGetApplicableRegulations
    \/ CallGenerateAiClauseText
    \/ CallGetMissingClauses

SpecCalls == Init /\ [][NextCalls]_vars

(***************************************************************************)
(* main.py: analyze_compliance, step by step                               *)
(*                                                                         *)
(* The free-text fields of AnalysisResponse (summary, executive_summary,   *)
(* modified_contract) and the timestamps are left out; the two summary     *)
(* calls of the service change no other field.                             *)
(***************************************************************************)
AnalysisTexts == {NoText, LoanText, PrivacyText}

RequestJurisdictions == {"US", "global"}

RequestIndustries == {"general", "auto_finance"}

\* the regulation lists a request may carry: known and unknown identifiers,
\* sorted and unsorted
ExplicitLists ==
    {<<>>, <<"GLBA">>, <<"TILA">>, <<"HIPAA">>, <<"EFTA">>, <<"TILA", "GLBA">>,
     <<"HIPAA", "GLBA">>, <<"GLBA", "GLBA">>, <<"TILA", "HIPAA", "GLBA">>}

MaxExplicit == 2

RegulationArgs ==
    {NoList} \cup {Some(l) : l \in {e \in ExplicitLists : Len(e) <= MaxExplicit}}

\* the outcomes the service may have at this call: at most MaxReplies answers
\* with status 200 in one analysis, and no call at all without a key
ServiceOutcomes ==
    IF ~api_key THEN {Raises}
    ELSE IF replies < MaxReplies THEN Outcomes
    ELSE {Raises, StatusError}

Answered(o) == IF api_key /\ o.kind = "ok" THEN 1 ELSE 0

Raise(error) ==
    /\ pc' = "failed"
    /\ report' = [status |-> "raised", error |-> error]

\* lines 343-350: the arguments become the locals and the id is formatted
\* from the clock; regulations = None and regulations = [] are both written
\* <<>>, line 350 takes the same branch for them and line 354 overwrites the
\* local
AnalyzeCompliance ==
    /\ pc = "idle"
    /\ analysis_id' = AnalysisId(now)
    /\ waiting' = Append(waiting, AnalysisId(now))
    /\ \E t \in AnalysisTexts, rl \in RegulationArgs,
          j \in RequestJurisdictions, i \in RequestIndustries :
        /\ req' = [contract_text |-> t, regulations |-> rl,
                   jurisdiction |-> j, industry |-> i]
        /\ jurisdiction' = j
        /\ industry' = i
        /\ regulations' = rl.list
        /\ pc' = IF rl.none \/ rl.list = <<>> THEN "context" ELSE "store"
    /\ UNCHANGED <<kbvars, now, handed_ids, api_key, call, idx, missing_clauses_data,
                   missing_clauses, results, overall_score, overall_risk, report,
                   trace, replies>>

\* lines 351-354: the answer of the text service to the context analysis,
\* the two codes read from it and the resolver; context.get raises when the
\* answer is JSON but not a dict, and the analysis ends before the store
ResolveContext ==
    /\ pc = "context"
    /\ \E o \in ServiceOutcomes :
        LET context == analyze_contract_context(api_key, req.contract_text, o)
            get(k, default) ==
                IF k \in DOMAIN context.v THEN context.v[k].v ELSE default
            jur == get("jurisdiction", jurisdiction)
            ind == get("industry", industry)
        IN  /\ replies' = replies + Answered(o)
            /\ IF context.t # "dict"
               THEN /\ Raise("AttributeError")
                    /\ trace' = Append(trace, [call |-> "analyze_contract_context"])
                    /\ waiting' = Tail(waiting)
                    /\ UNCHANGED <<jurisdiction, industry, regulations>>
               ELSE /\ jurisdiction' = jur
                    /\ industry' = ind
                    /\ regulations' = get_applicable_regulations(regulatory_data,
                                        jurisdiction_map, industry_map,
                                        req.contract_text, jur, ind)
                    /\ trace' = trace \o <<[call |-> "analyze_contract_context"],
                                           [call |-> "get_applicable_regulations",
                                            jurisdiction |-> jur, industry |-> ind]>>
                    /\ pc' = "store"
                    /\ UNCHANGED <<report, waiting>>
    /\ UNCHANGED <<kbvars, now, analysis_id, handed_ids, api_key, call, req, idx,
                   missing_clauses_data, missing_clauses, results, overall_score,
                   overall_risk>>

\* lines 358-368: chroma_db.store_contract (it returns True or False, never raises)
StoreContract ==
    /\ pc = "store"
    /\ handed_ids' = Append(handed_ids, analysis_id)
    /\ waiting' = Tail(waiting)
    /\ trace' = Append(trace, [call |-> "store_contract",
                               analysis_id |-> analysis_id,
                               contract_text |-> req.contract_text,
                               regulations |-> regulations,
                               jurisdiction |-> jurisdiction,
                               industry |-> industry])
    /\ pc' = "notify_start"
    /\ UNCHANGED <<kbvars, now, analysis_id, api_key, call, req, jurisdiction, industry, regulations,
                   idx, missing_clauses_data, missing_clauses, results,
                   overall_score, overall_risk, report, replies>>

\* a "started" e-mail whose failed delivery ends the analysis
NotifyStartedOrAbort ==
    /\ pc = "notify_start"
    /\ \E delivered \in BOOLEAN :
        /\ trace' = Append(trace, [call |-> "send_email_notification",
                                   subject |-> "Compliance Analysis Started",
                                   jurisdiction |-> jurisdiction,
                                   industry |-> industry,
                                   regulations |-> Join(", ", regulations),
                                   delivered |-> delivered])
        /\ IF delivered THEN pc' = "loop" /\ UNCHANGED report
           ELSE Raise("DeliveryError")
    /\ UNCHANGED <<kbvars, idvars, api_key, call, req, jurisdiction, industry, regulations,
                   idx, missing_clauses_data, missing_clauses, results,
                   overall_score, overall_risk, replies>>

\* lines 370-381: the "started" e-mail; send_email_notification returns True,
\* or False after an exception, and the value is not looked at
NotifyStarted ==
    /\ pc = "notify_start"
    /\ \E delivered \in BOOLEAN :
        trace' = Append(trace, [call |-> "send_email_notification",
                                subject |-> "Compliance Analysis Started",
                                jurisdiction |-> jurisdiction,
                                industry |-> industry,
                                regulations |-> Join(", ", regulations),
                                delivered |-> delivered])
    /\ pc' = "loop"
    /\ UNCHANGED <<kbvars, idvars, api_key, call, req, jurisdiction, industry, regulations,
                   idx, missing_clauses_data, missing_clauses, results,
                   overall_score, overall_risk, report, replies>>

\* a loop step that takes the clauses it reports out of the registry
NextRegulationTakingClauses ==
    /\ pc = "loop"
    /\ idx < Len(regulations)
    /\ idx' = idx + 1
    /\ missing_clauses_data' =
            get_missing_clauses(regulatory_data, req.contract_text, regulations[idx + 1])
    /\ regulatory_data' =
            [r \in DOMAIN regulatory_data |->
                IF r = regulations[idx + 1]
                THEN SelectSeq(regulatory_data[r],
                               LAMBDA c : _is_clause_present(c, Lower(req.contract_text)))
                ELSE regulatory_data[r]]
    /\ missing_clauses' = <<>>
    /\ pc' = "clauses"
    /\ UNCHANGED <<jurisdiction_map, industry_map, idvars, api_key, call, req,
                   jurisdiction, industry, regulations, results, overall_score,
                   overall_risk, report, trace, replies>>

\* lines 384-387: the next regulation and its missing clauses
NextRegulation ==
    /\ pc = "loop"
    /\ idx < Len(regulations)
    /\ idx' = idx + 1
    /\ missing_clauses_data' =
            get_missing_clauses(regulatory_data, req.contract_text, regulations[idx + 1])
    /\ missing_clauses' = <<>>
    /\ pc' = "clauses"
    /\ UNCHANGED <<kbvars, idvars, api_key, call, req, jurisdiction, industry, regulations,
                   results, overall_score, overall_risk, report, trace, replies>>

\* lines 388-404: the suggested text of one missing clause
GenerateClause ==
    /\ pc = "clauses"
    /\ Len(missing_clauses) < Len(missing_clauses_data)
    /\ \E o \in ServiceOutcomes :
        LET clause_data == missing_clauses_data[Len(missing_clauses) + 1]
            suggested_text == generate_ai_clause_text(api_key, regulations[idx],
                                  clause_data.clause, clause_data.requirements, o)
        IN  /\ missing_clauses' =
                    Append(missing_clauses, ClauseSuggestion(clause_data, suggested_text))
            /\ replies' = replies + Answered(o)
    /\ UNCHANGED <<kbvars, idvars, api_key, call, pc, req, jurisdiction, industry, regulations,
                   idx, missing_clauses_data, results, overall_score, overall_risk,
                   report, trace>>

\* lines 406-452: score, findings, AI enhancement and the ComplianceResult
AssessRegulation ==
    /\ pc = "clauses"
    /\ Len(missing_clauses) = Len(missing_clauses_data)
    /\ \E o \in ServiceOutcomes :
        LET basic_analysis == BasicAnalysis(req.contract_text, regulations[idx],
                                            missing_clauses_data, missing_clauses)
            enhanced_analysis == enhance_compliance_analysis(api_key, basic_analysis, o)
        IN  /\ replies' = replies + Answered(o)
            /\ IF ResultValidates(enhanced_analysis)
               THEN /\ results' = Append(results,
                            ComplianceResult(regulations[idx], enhanced_analysis,
                                             missing_clauses))
                    /\ pc' = "loop"
                    /\ UNCHANGED report
               ELSE /\ Raise("ValidationError")
                    /\ UNCHANGED results
    /\ UNCHANGED <<kbvars, idvars, api_key, call, req, jurisdiction, industry, regulations,
                   idx, missing_clauses_data, missing_clauses, overall_score,
                   overall_risk, trace>>

\* lines 454-464: the overall score and risk
Aggregate ==
    /\ pc = "loop"
    /\ idx = Len(regulations)
    /\ overall_score' = OverallScore(results)
    /\ overall_risk' = OverallRisk(results)
    /\ pc' = "summary"
    /\ UNCHANGED <<kbvars, idvars, api_key, call, req, jurisdiction, industry, regulations,
                   idx, missing_clauses_data, missing_clauses, results, report,
                   trace, replies>>

\* line 467: generate_executive_summary asks the text service once; it
\* returns the answer or its own text and never raises; the summary texts are
\* not among the fields of the report kept here
ExecutiveSummary ==
    /\ pc = "summary"
    /\ \E o \in ServiceOutcomes : replies' = replies + Answered(o)
    /\ pc' = "detailed"
    /\ UNCHANGED <<kbvars, idvars, api_key, call, req, jurisdiction, industry, regulations,
                   idx, missing_clauses_data, missing_clauses, results,
                   overall_score, overall_risk, report, trace>>

\* lines 468-471: generate_detailed_summary asks the text service once and
\* never raises; generate_modified_contract asks nothing
DetailedSummary ==
    /\ pc = "detailed"
    /\ \E o \in ServiceOutcomes : replies' = replies + Answered(o)
    /\ pc' = "notify_done"
    /\ UNCHANGED <<kbvars, idvars, api_key, call, req, jurisdiction, industry, regulations,
                   idx, missing_clauses_data, missing_clauses, results,
                   overall_score, overall_risk, report, trace>>

\* a "complete" e-mail that is sent twice
NotifyCompletedTwice ==
    /\ pc = "notify_done"
    /\ \E delivered \in BOOLEAN :
        LET mail == [call |-> "send_email_notification",
                     subject |-> "Compliance Analysis Complete",
                     risk_level |-> Upper(overall_risk),
                     regulations_analyzed |-> Len(results),
                     delivered |-> delivered]
        IN  trace' = trace \o <<mail, mail>>
    /\ pc' = "sheets"
    /\ UNCHANGED <<kbvars, idvars, api_key, call, req, jurisdiction, industry, regulations,
                   idx, missing_clauses_data, missing_clauses, results,
                   overall_score, overall_risk, report, replies>>

\* lines 473-489: the "complete" e-mail
NotifyCompleted ==
    /\ pc = "notify_done"
    /\ \E delivered \in BOOLEAN :
        trace' = Append(trace, [call |-> "send_email_notification",
                                subject |-> "Compliance Analysis Complete",
                                risk_level |-> Upper(overall_risk),
                                regulations_analyzed |-> Len(results),
                                delivered |-> delivered])
    /\ pc' = "sheets"
    /\ UNCHANGED <<kbvars, idvars, api_key, call, req, jurisdiction, industry, regulations,
                   idx, missing_clauses_data, missing_clauses, results,
                   overall_score, overall_risk, report, replies>>

\* lines 491-512: the spreadsheet row and the AnalysisResponse returned
UpdateSheetsAndReturn ==
    /\ pc = "sheets"
    /\ \E delivered \in BOOLEAN :
        trace' = Append(trace, [call |-> "update_google_sheets",
                                overall_score |-> overall_score,
                                risk_level |-> overall_risk,
                                regulations_analyzed |-> Len(results),
                                delivered |-> delivered])
    /\ report' = [status |-> "returned", overall_score |-> overall_score,
                  risk_level |-> overall_risk, results |-> results]
    /\ pc' = "done"
    /\ UNCHANGED <<kbvars, idvars, api_key, call, req, jurisdiction, industry, regulations,
                   idx, missing_clauses_data, missing_clauses, results,
                   overall_score, overall_risk, replies>>

Next ==
    \/ AnalyzeCompliance
    \/ ResolveContext
    \/ StoreContract
    \/ NotifyStarted
    \/ NextRegulation
    \/ GenerateClause
    \/ AssessRegulation
    \/ Aggregate
    \/ ExecutiveSummary
    \/ DetailedSummary
    \/ NotifyCompleted
    \/ UpdateSheetsAndReturn

Spec == Init /\ [][Next]_vars

(***************************************************************************)
(* main.py: the analysis ids of several analyses                           *)
(***************************************************************************)
MaxSeconds == 3

MaxAnalyses == 3

\* the clock reaches the next second
Tick ==
    /\ now < MaxSeconds
    /\ now' = now + 1
    /\ UNCHANGED <<kbvars, api_key, call, anvars, analysis_id, handed_ids, waiting>>

\* lines 346-347 of one more analysis, after or beside the earlier ones: its
\* id is formatted from the clock
BeginAnalysis ==
    /\ Len(handed_ids) + Len(waiting) < MaxAnalyses
    /\ analysis_id' = AnalysisId(now)
    /\ waiting' = Append(waiting, AnalysisId(now))
    /\ UNCHANGED <<kbvars, api_key, call, anvars, now, handed_ids>>

\* the list without its k-th entry
Without(l, k) == SubSeq(l, 1, k - 1) \o SubSeq(l, k + 1, Len(l))

\* lines 350-368 of one of the analyses under way: after the context analysis
\* and the resolver, which may have waited for the text service, it hands the
\* id it formatted at line 347 to the store
HandToStore ==
    /\ \E k \in 1..Len(waiting) :
        /\ analysis_id' = waiting[k]
        /\ handed_ids' = Append(handed_ids, waiting[k])
        /\ waiting' = Without(waiting, k)
    /\ UNCHANGED <<kbvars, api_key, call, anvars, now>>

\* lines 350-352 of one of the analyses under way: the configured text
\* service answered the context analysis with JSON that is not a dict,
\* context.get raises and the analysis ends without handing its id
AbandonAnalysis ==
    /\ api_key
    /\ \E k \in 1..Len(waiting) :
        /\ analysis_id' = waiting[k]
        /\ waiting' = Without(waiting, k)
    /\ UNCHANGED <<kbvars, api_key, call, anvars, now, handed_ids>>

NextIds == Tick \/ BeginAnalysis \/ HandToStore \/ AbandonAnalysis

SpecIds == Init /\ [][NextIds]_vars

(***************************************************************************)
(* Properties of the stand-alone calls                                     *)
(***************************************************************************)
Resolved == call.op = "get_applicable_regulations"

Generated == call.op = "generate_ai_clause_text"

\* C1: the list get_applicable_regulations returns is sorted ascending by
\* identifier without duplicates, and every regulation in it lists the
\* jurisdiction asked for or "global", and the industry asked for or "all"
C1_ResolverSortedAndCompatible ==
    Resolved =>
        /\ \A a, b \in 1..Len(call.ret) : a < b => StrLess(call.ret[a], call.ret[b])
        /\ \A k \in 1..Len(call.ret) :
            LET first == regulatory_data[call.ret[k]][1]
            IN  /\ \E n \in 1..Len(first.jurisdictions) :
                        first.jurisdictions[n] \in {call.jurisdiction, "global"}
                /\ \E n \in 1..Len(first.industries) :
                        first.industries[n] \in {call.industry, "all"}

\* a call that returned several regulations after the filter dropped EFTA,
\* which the industry map and the content signal had both put in the set
C1_Witness ==
    /\ Resolved
    /\ Len(call.ret) >= 3
    /\ call.industry = "lending"
    /\ Contains("loan", Lower(call.contract_text))
    /\ \A k \in 1..Len(call.ret) : call.ret[k] # "EFTA"

\* C2: for "US", "lending" and a text with "loan", "financing" and
\* "interest rate" but neither "privacy" nor "apr", the result includes GLBA,
\* FCRA, TILA and EFTA
C2_LendingScenarioIncludesAllFour ==
    (/\ Resolved
     /\ call.jurisdiction = "US"
     /\ call.industry = "lending"
     /\ Contains("loan", Lower(call.contract_text))
     /\ Contains("financing", Lower(call.contract_text))
     /\ Contains("interest rate", Lower(call.contract_text))
     /\ ~Contains("privacy", Lower(call.contract_text))
     /\ ~Contains("apr", Lower(call.contract_text)))
    => {"GLBA", "FCRA", "TILA", "EFTA"} \subseteq ToSet(call.ret)

\* the service outcomes that must lead to the template clause
FallbackOutcome ==
    \/ ~api_key
    \/ call.outcome.kind \in {"raise", "status"}
    \/ Strip(call.outcome.content) = ""
    \/ Len(Strip(call.outcome.content)) < 50

\* C4: when the call raises or times out, the service is not configured, the
\* status is not a success, or the answer is empty or too short, the clause
\* returned is the template clause and never one of the sentinel strings
C4_FallbackOnEveryDegradedOutcome ==
    (Generated /\ FallbackOutcome) =>
        /\ call.ret = FallbackClause(call.regulation, call.clause, call.requirements)
        /\ call.ret \notin {NotConfiguredText, CompletedText}

\* C5 as stated: with the service failing, the text returned is non-empty and
\* contains the clause name as given, the regulation and every requirement
C5_FallbackHasNameAsGiven ==
    (Generated /\ call.outcome.kind \in {"raise", "status"}) =>
        /\ call.ret # ""
        /\ Contains(call.clause, call.ret)
        /\ Contains(call.regulation, call.ret)
        /\ \A k \in 1..Len(call.requirements) : Contains(call.requirements[k], call.ret)

\* C5 amended: when the external call raises, times out or answers with a
\* status other than 200, the text returned is non-empty and contains the
\* clause name in upper case and in lower case, the regulation identifier and
\* every requirement phrase verbatim
C5_FallbackHasNameUpperAndLower ==
    (Generated /\ api_key /\ call.outcome.kind \in {"raise", "status"}) =>
        /\ call.ret # ""
        /\ Contains(Upper(call.clause), call.ret)
        /\ Contains(Lower(call.clause), call.ret)
        /\ Contains(call.regulation, call.ret)
        /\ \A k \in 1..Len(call.requirements) : Contains(call.requirements[k], call.ret)

\* the generator was called for a clause of two registry clauses' regulation
\* while the configured service raised
C5_Witness ==
    /\ Generated
    /\ api_key
    /\ call.outcome.kind = "raise"
    /\ call.clause = "Data Safeguards Program"
    /\ Len(call.ret) > 50

(***************************************************************************)
(* Properties of analyze_compliance                                        *)
(***************************************************************************)
Requested == pc # "idle"

ExplicitList == Requested /\ ~req.regulations.none

Known(regulation) == regulation \in DOMAIN regulatory_data

TraceCalls == {trace[k].call : k \in 1..Len(trace)}

Risks(rs) == {rs[k].risk_assessment : k \in 1..Len(rs)}

\* C3: an analysis asked for with an explicit list that names a regulation
\* the registry does not hold fails; it returns no report and the unknown
\* regulation is never scored
C3_UnknownRegulationFails ==
    (ExplicitList /\ \E k \in 1..Len(req.regulations.list) :
                        ~Known(req.regulations.list[k]))
    => /\ pc # "done"
       /\ \A k \in 1..Len(results) : Known(results[k].regulation)

\* C6: whatever the service does at each of its calls, analyze_compliance
\* raises nothing: no analysis ends with an exception
C6_NoServiceOutcomeAborts == pc # "failed" /\ report.status # "raised"

\* C7: with a regulation list given in the request, neither the context
\* analysis nor the resolver is called and the regulations analysed are the
\* entries of the list
C7_ExplicitListBypassesResolver ==
    ExplicitList =>
        /\ "analyze_contract_context" \notin TraceCalls
        /\ "get_applicable_regulations" \notin TraceCalls
        /\ pc # "failed" => regulations = req.regulations.list

\* C8: the resolver is called with the request's jurisdiction and industry,
\* and the values handed to storage and to the notification are the request's
C8_RequestCodesReadOnly ==
    \A k \in 1..Len(trace) :
        (\/ trace[k].call \in {"get_applicable_regulations", "store_contract"}
         \/ (trace[k].call = "send_email_notification"
                /\ trace[k].subject = "Compliance Analysis Started"))
        => /\ trace[k].jurisdiction = req.jurisdiction
           /\ trace[k].industry = req.industry

NoTriggerTerm(text) ==
    /\ ~AnyIn(financial_terms, Lower(text))
    /\ ~AnyIn(privacy_terms, Lower(text))
    /\ ~AnyIn(security_terms, Lower(text))

\* C9: "global", "auto_finance", no regulation list and a text with no
\* trigger term give a report with overall_score 0.0, risk "low" and no result
C9_EmptySetScenario ==
    (/\ pc = "done"
     /\ req.jurisdiction = "global"
     /\ req.industry = "auto_finance"
     /\ req.regulations.none
     /\ NoTriggerTerm(req.contract_text))
    => /\ report.overall_score = Rat(0, 1)
       /\ report.risk_level = "low"
       /\ report.results = <<>>

\* C10: in every report the overall risk is "high" exactly when some result
\* has risk "high", and "low" exactly when no result has risk "medium" or "high"
C10_OverallRiskFromResults ==
    pc = "done" =>
        /\ report.risk_level = "high" <=> "high" \in Risks(report.results)
        /\ report.risk_level = "low" <=>
                Risks(report.results) \cap {"medium", "high"} = {}

\* a report whose first result kept "medium" and whose second was set to
\* "high" by the service
C10_Witness ==
    /\ pc = "done"
    /\ Len(report.results) = 2
    /\ report.results[1].risk_assessment = "medium"
    /\ report.results[2].risk_assessment = "high"
    /\ report.risk_level = "high"

\* C11: in every report overall_score is the arithmetic mean of the
\* compliance_score values of the results of that report, and 0.0 when the
\* report has no result
C11_OverallScoreIsMean ==
    pc = "done" =>
        LET sum == SumScores(report.results)
            count == Len(report.results)
        IN  IF count = 0 THEN report.overall_score = Rat(0, 1)
            ELSE report.overall_score.n * sum.d * count = sum.n * report.overall_score.d

\* a report of two results whose scores differ
C11_Witness ==
    /\ pc = "done"
    /\ Len(report.results) = 2
    /\ report.results[1].compliance_score # report.results[2].compliance_score
    /\ RatLess(Rat(0, 1), report.overall_score)

\* C12: the compliance_score of every result is
\* max(0.1, 1.0 - (missing_count / total_clauses * 0.8)) with total_clauses =
\* missing_count + 3: exactly 1.0 with no missing clause, never below 0.1 nor
\* above 1.0, and never larger for a result with more missing clauses
C12_ScoreFormula ==
    \A k \in 1..Len(results) :
        LET score == results[k].compliance_score
            missing_count == Len(results[k].missing_clauses)
            total_clauses == missing_count + 3
            \* 1.0 - missing_count / total_clauses * 0.8, over 10 * total_clauses
            numerator == 10 * total_clauses - 8 * missing_count
        IN  /\ IF numerator >= total_clauses
               THEN score.n * 10 * total_clauses = numerator * score.d
               ELSE score.n * 10 = score.d
            /\ missing_count = 0 => score = [n |-> 1, d |-> 1]
            /\ score.n * 10 >= score.d
            /\ score.n <= score.d
            /\ \A j \in 1..Len(results) :
                    Len(results[j].missing_clauses) >= missing_count
                        => ~RatLess(score, results[j].compliance_score)

\* results with no, with one and with two missing clauses have been scored
C12_Witness ==
    /\ Len(results) = 2
    /\ Len(results[1].missing_clauses) = 0
    /\ Len(results[2].missing_clauses) = 2
    /\ RatLess(results[2].compliance_score, results[1].compliance_score)

\* C13: in every report the results are in ascending order of regulation
\* identifier, whether the regulations came from the resolver or from the
\* request's list
C13_ResultsInSortedOrder ==
    pc = "done" =>
        \A a, b \in 1..Len(report.results) :
            a < b => ~StrLess(report.results[b].regulation, report.results[a].regulation)

\* no call of the service has been answered in this analysis: the service is
\* not configured, or every call raised, timed out or had a status other
\* than 200
DeterministicPath == Requested /\ replies = 0

\* C14: while the service is unavailable or fails at every call, every
\* result has risk_assessment "medium", however many clauses are missing and
\* whatever their risk levels, and a report with results has overall risk
\* "medium"
C14_DeterministicRiskIsMedium ==
    DeterministicPath =>
        /\ \A k \in 1..Len(results) : results[k].risk_assessment = "medium"
        /\ (pc = "done" /\ report.results # <<>>) => report.risk_level = "medium"

\* a report from a configured service that failed at every call, with a
\* result without missing clause and a result with two high-risk ones
C14_Witness ==
    /\ pc = "done"
    /\ api_key
    /\ replies = 0
    /\ Len(report.results) = 2
    /\ \E k \in 1..2 : report.results[k].missing_clauses = <<>>
    /\ \E k \in 1..2 :
            /\ Len(report.results[k].missing_clauses) = 2
            /\ report.results[k].missing_clauses[1].risk_level = "high"

RiskLevels == {"low", "medium", "high"}

\* C15: in every report, also after an answered enhancement call, the
\* risk_assessment of each result and the overall risk level are one of
\* "low", "medium" and "high"
C15_RisksWithinLevels ==
    pc = "done" =>
        /\ report.risk_level \in RiskLevels
        /\ \A k \in 1..Len(report.results) :
                report.results[k].risk_assessment \in RiskLevels

\* what an answer of the service adds to the issues and the recommendations
AiAdded(content) ==
    LET parsed == JsonLoads(content)
        has(k) == parsed.t = "dict" /\ k \in DOMAIN parsed.v
        none == [raised |-> FALSE, list |-> <<>>]
        e1 == IF has("enhanced_issues")
              THEN Extend(<<>>, parsed.v["enhanced_issues"]) ELSE none
        e2 == IF has("recommendations") /\ ~e1.raised
              THEN Extend(<<>>, parsed.v["recommendations"]) ELSE none
    IN  [issues |-> Unwrap(e1.list), recommendations |-> Unwrap(e2.list)]

\* C16: the issues of a result are the first min(5, n) entries of the issues
\* generated for it, in generation order: those of the missing clauses, then
\* those of the content checks, then those the service added; likewise for
\* the recommendations
C16_FindingsTruncatedInOrder ==
    pc = "done" => \A k \in 1..Len(report.results) :
        LET result == report.results[k]
            found == InitialFindings(result.regulation, result.missing_clauses)
            content_analysis ==
                analyze_contract_content(req.contract_text, result.regulation)
            prefix(l) == SubSeq(l, 1, IF Len(l) < 5 THEN Len(l) ELSE 5)
        IN  \E added \in {AiAdded(c) : c \in Contents} :
                /\ result.issues =
                        prefix(found.issues \o content_analysis.issues \o added.issues)
                /\ result.recommendations =
                        prefix(found.recommendations \o content_analysis.recommendations
                               \o added.recommendations)

\* a result whose six generated issues were cut to five: four of its own,
\* then the first one the service added
C16_Witness ==
    pc = "done" /\ \E k \in 1..Len(report.results) :
        /\ report.results[k].regulation = "GLBA"
        /\ Len(report.results[k].issues) = 5
        /\ report.results[k].issues[4] = "Missing opt-out mechanisms for information sharing"
        /\ report.results[k].issues[5] = "No audit clause"
        /\ Len(report.results[k].recommendations) = 5

\* C17: the TILA result of a text with neither "apr" nor "annual percentage
\* rate" in any case has the issue "Missing APR disclosure" among its reported
\* issues, and when the text has no "finance charge" either it also has the
\* issue "Missing finance charge disclosure"
C17_TilaAprIssueReported ==
    pc = "done" => \A k \in 1..Len(report.results) :
        LET contract_lower == Lower(req.contract_text)
            issues == ToSet(report.results[k].issues)
        IN  (/\ report.results[k].regulation = "TILA"
             /\ ~Contains("apr", contract_lower)
             /\ ~Contains("annual percentage rate", contract_lower))
            => /\ "Missing APR disclosure" \in issues
               /\ ~Contains("finance charge", contract_lower)
                    => "Missing finance charge disclosure" \in issues

\* a TILA result cut to five issues, the service's issue last, that still has
\* both disclosure issues
C17_Witness ==
    pc = "done" /\ \E k \in 1..Len(report.results) :
        /\ report.results[k].regulation = "TILA"
        /\ ~Contains("apr", Lower(req.contract_text))
        /\ Len(report.results[k].issues) = 5
        /\ report.results[k].issues[3] = "Missing APR disclosure"
        /\ report.results[k].issues[4] = "Missing finance charge disclosure"
        /\ report.results[k].issues[5] = "No audit clause"

\* the calls that deliver a notification
Notifications == {"send_email_notification", "update_google_sheets"}

\* what the report is made of
analysis == <<regulations, results, missing_clauses, overall_score, overall_risk>>

\* a step taken from one of the three notification points
NotificationStepKeepsAnalysis ==
    pc \in {"notify_start", "notify_done", "sheets"} =>
        /\ trace'[Len(trace')].call \in Notifications
        /\ analysis' = analysis
        /\ pc' = (CASE pc = "notify_start" -> "loop"
                     [] pc = "notify_done" -> "sheets"
                     [] pc = "sheets" -> "done")
        /\ pc = "sheets" =>
                report' = [status |-> "returned", overall_score |-> overall_score,
                           risk_level |-> overall_risk, results |-> results]
        /\ pc # "sheets" => report' = report

\* C19: a notification step, whether the delivery succeeded or not, leaves
\* the regulations, results, missing clauses, score and risk as they were and
\* goes on to the same next step; the report returned holds exactly these
\* values
C19_NotificationsDoNotAffectResult == [][NotificationStepKeepsAnalysis]_vars

\* a report with results returned although the start e-mail, the completion
\* e-mail and the spreadsheet update all failed
C19_Witness ==
    /\ pc = "done"
    /\ report.results # <<>>
    /\ \A k \in 1..Len(trace) :
            trace[k].call \in Notifications => ~trace[k].delivered
    /\ Cardinality({k \in 1..Len(trace) : trace[k].call \in Notifications}) = 3

\* C20: any two analyses have different analysis ids, also when they start
\* within the same clock second: no id handed to the store is the id of an
\* earlier analysis
C20_AnalysisIdsDistinct ==
    \A a, b \in 1..Len(handed_ids) : a # b => handed_ids[a] # handed_ids[b]

\* C21: store_contract is called only once every result, the overall score
\* and the overall risk have been computed, and what it is given holds the
\* results of the finished report
C21_StoredAfterReportFinished ==
    \A k \in 1..Len(trace) :
        trace[k].call = "store_contract" =>
            /\ pc \in {"notify_done", "sheets", "done"}
            /\ "results" \in DOMAIN trace[k]

\* C22: whatever was called since, analyses finished or aborted included,
\* regulatory_data with every clause's requirements, jurisdiction_map and
\* industry_map are what the constructor made them
C22_RegistryUnchanged ==
    /\ regulatory_data = _initialize_commercial_regulations
    /\ jurisdiction_map = _initialize_jurisdiction_map
    /\ industry_map = _initialize_industry_map

\* a report whose result had issues, recommendations and legal references
\* added by the service, for a regulation with missing clauses
C22_Witness ==
    /\ pc = "done"
    /\ \E k \in 1..Len(report.results) :
            /\ report.results[k].legal_references # <<>>
            /\ report.results[k].missing_clauses # <<>>
            /\ "No audit clause" \in ToSet(report.results[k].issues)

Detected == call.op = "get_missing_clauses"

\* the three signals of a clause on a lower-cased text, and their weighted sum
\* in tenths
SignalD(clause_data, text) == CountIn(_extract_keywords(Lower(clause_data.clause)), text)

SignalR(clause_data, text) ==
    Cardinality({k \in 1..Len(clause_data.requirements) :
        /\ k <= 3
        /\ \E w \in ToSet(Split(Lower(clause_data.requirements[k]), "")) :
                Contains(w, text)})

SignalC(clause_data, text) ==
    IF clause_data.clause \in DOMAIN concept_map
    THEN CountIn(concept_map[clause_data.clause], text) ELSE 0

Tenths(clause_data, text) ==
    5 * SignalD(clause_data, text) + 3 * SignalR(clause_data, text)
        + 2 * SignalC(clause_data, text)

\* C23: a clause is present exactly when 5d + 3r + 2c >= 10 for its keyword,
\* requirement and concept signals on the lower-cased text, and
\* get_missing_clauses returns the clauses that are not present, in registry
\* order
C23_MissingAreBelowThreshold ==
    (Detected /\ Known(call.regulation)) =>
        LET text == Lower(call.contract_text)
            below(clause_data) == Tenths(clause_data, text) < 10
        IN  call.ret = SelectSeq(regulatory_data[call.regulation], below)

\* GLBA on a text that reaches the threshold exactly for the first clause
\* (d = 1, r = 1, c = 1) and stays below it for the second
C23_Witness ==
    /\ Detected
    /\ call.regulation = "GLBA"
    /\ Tenths(regulatory_data["GLBA"][1], Lower(call.contract_text)) = 10
    /\ Len(call.ret) = 1
    /\ call.ret[1].clause = "Data Safeguards Program"

\* C24: when get_missing_clauses looks at CCPA_CPRA on a text with the phrase
\* "privacy policy", the semantic-concept signal of the clause "California
\* Consumer Privacy Rights" is at least 1
C24_PrivacyPolicyCountsForCcpa ==
    (/\ Detected
     /\ call.regulation = "CCPA_CPRA"
     /\ Contains("privacy policy", Lower(call.contract_text)))
    => \A k \in 1..Len(regulatory_data["CCPA_CPRA"]) :
            regulatory_data["CCPA_CPRA"][k].clause = "California Consumer Privacy Rights"
                => _check_semantic_concepts(regulatory_data["CCPA_CPRA"][k],
                                            Lower(call.contract_text)) >= 1

\* C25: a jurisdiction or industry code absent from its map adds nothing to
\* the set the resolver starts from, and for every pair of codes the call
\* returns a list sorted ascending, made only of regulations the known codes
\* or the content signals put in the set
C25_UnknownCodesContributeNothing ==
    Resolved =>
        LET jur == call.jurisdiction
            ind == call.industry
            seed == SeedRegulations(jurisdiction_map, industry_map, jur, ind)
            of_jur == IF jur \in DOMAIN jurisdiction_map
                         THEN ToSet(jurisdiction_map[jur]) ELSE {}
            of_ind == IF ind \in DOMAIN industry_map
                         THEN ToSet(industry_map[ind]) ELSE {}
        IN  /\ seed = of_jur \cup of_ind
            /\ DOMAIN call.ret = 1..Len(call.ret)
            /\ \A a, b \in 1..Len(call.ret) :
                    a < b => StrLess(call.ret[a], call.ret[b])
            /\ ToSet(call.ret) \subseteq
                    seed \cup _detect_regulations_from_content(Lower(call.contract_text))

\* the resolver answered for an industry code the industry map does not
\* have, under a jurisdiction code the jurisdiction map has
C25_Witness ==
    /\ Resolved
    /\ call.industry \notin DOMAIN industry_map
    /\ call.jurisdiction \in DOMAIN jurisdiction_map
    /\ call.ret = <<"CCPA_CPRA", "EFTA">>

\* C26: in the result of a regulation with missing clauses, of which N are
\* high-risk, the issues start with "Missing N high-risk compliance clauses"
\* when N > 0, the recommendations hold "Add '<clause>' clause" for each of
\* the first three missing clauses in their order, and the entries of the
\* content checks come after all of these; the result of a regulation without
\* a missing clause has, before what the service added, only the entries of
\* the content checks
C26_ClauseFindingsPrecedeContentChecks ==
    pc = "done" => \A k \in 1..Len(report.results) :
        LET result == report.results[k]
            missing == result.missing_clauses
            N == Cardinality({n \in 1..Len(missing) : missing[n].risk_level = "high"})
            top == IF Len(missing) < 3 THEN Len(missing) ELSE 3
            own_issues == IF N > 0 THEN 2 ELSE 1
            content_analysis ==
                analyze_contract_content(req.contract_text, result.regulation)
            prefix(l) == SubSeq(l, 1, IF Len(l) < 5 THEN Len(l) ELSE 5)
        IN  IF Len(missing) > 0
            THEN /\ N > 0 =>
                        result.issues[1] =
                            "Missing " \o Str(N) \o " high-risk compliance clauses"
                 /\ Len(result.recommendations) >= 1 + top
                 /\ \A n \in 1..top :
                        result.recommendations[1 + n] =
                            "Add '" \o missing[n].clause \o "' clause"
                 /\ \A p \in 1..Len(result.issues) :
                        result.issues[p] \in ToSet(content_analysis.issues)
                            => p > own_issues
                 /\ \A p \in 1..Len(result.recommendations) :
                        result.recommendations[p] \in ToSet(content_analysis.recommendations)
                            => p > 1 + top
            ELSE \E added \in {AiAdded(c) : c \in Contents} :
                    /\ result.issues = prefix(content_analysis.issues \o added.issues)
                    /\ result.recommendations =
                            prefix(content_analysis.recommendations \o added.recommendations)

\* a report with the result of GLBA, two high-risk clauses missing and a
\* content issue behind the two issues of the clauses
C26_Witness ==
    pc = "done" /\ \E k \in 1..Len(report.results) :
        LET result == report.results[k]
        IN  /\ result.regulation = "GLBA"
            /\ Len(result.missing_clauses) = 2
            /\ result.issues[1] = "Missing 2 high-risk compliance clauses"
            /\ result.issues[3] \in
                    ToSet(analyze_contract_content(req.contract_text, "GLBA").issues)
            /\ result.recommendations[2] = "Add 'Financial Privacy Notice' clause"
            /\ result.recommendations[3] = "Add 'Data Safeguards Program' clause"

\* the positions in the trace of the e-mails with the given subject
Mails(subject) ==
    {k \in 1..Len(trace) :
        trace[k].call = "send_email_notification" /\ trace[k].subject = subject}

\* C27: an analysis that returns a report has sent exactly one "started"
\* e-mail, before any regulation was processed, and exactly one "complete"
\* e-mail, after the last regulation was processed and the overall score and
\* risk were computed; an analysis that ended with an error has sent no
\* "complete" e-mail
C27_LifecycleNotificationsOnce ==
    LET started == Mails("Compliance Analysis Started")
        completed == Mails("Compliance Analysis Complete")
    IN  /\ Cardinality(started) <= 1
        /\ Cardinality(completed) <= 1
        /\ started = {} => (idx = 0 /\ results = <<>> /\ completed = {})
        /\ completed # {} =>
                /\ pc \in {"sheets", "done"}
                /\ idx = Len(regulations)
                /\ Len(results) = Len(regulations)
                /\ overall_score = OverallScore(results)
                /\ overall_risk = OverallRisk(results)
                /\ \A s \in started, c \in completed :
                        /\ s < c
                        /\ trace[c].regulations_analyzed = Len(regulations)
                        /\ trace[c].risk_level = Upper(overall_risk)
        /\ pc = "done" => (Cardinality(started) = 1 /\ Cardinality(completed) = 1)
        /\ pc = "failed" => completed = {}

\* a report of two results was returned after the store, the "started"
\* e-mail, the "complete" e-mail and the spreadsheet update, in this order
C27_Witness ==
    /\ pc = "done"
    /\ Len(report.results) = 2
    /\ Len(trace) = 4
    /\ Mails("Compliance Analysis Started") = {2}
    /\ Mails("Compliance Analysis Complete") = {3}

\* C28: the list the resolver returns is the same for every contract text,
\* and it holds exactly the registry regulations whose first clause lists the
\* jurisdiction asked for and lists the industry asked for or "all"; what the
\* content signals add never shows in the result
C28_ResolverIgnoresText ==
    Resolved =>
        LET jur == call.jurisdiction
            ind == call.industry
            listed == {r \in DOMAIN regulatory_data :
                        LET first == regulatory_data[r][1]
                        IN  /\ jur \in ToSet(first.jurisdictions)
                            /\ (ind \in ToSet(first.industries)
                                \/ "all" \in ToSet(first.industries))}
        IN  /\ \A other \in Texts :
                    get_applicable_regulations(regulatory_data, jurisdiction_map,
                                               industry_map, other, jur, ind) = call.ret
            /\ ToSet(call.ret) = listed

\* the resolver answered for a text whose security terms added NY_DFS to a
\* set that the two maps had not put it in, and the answer is without it
C28_Witness ==
    /\ Resolved
    /\ "NY_DFS" \in _detect_regulations_from_content(Lower(call.contract_text))
    /\ "NY_DFS" \notin SeedRegulations(jurisdiction_map, industry_map,
                                       call.jurisdiction, call.industry)
    /\ call.ret = <<"CCPA_CPRA">>

\* C29: for the jurisdiction "US_CA" the resolver returns exactly the list
\* <<"CCPA_CPRA">> whatever the industry and the text, the other five
\* regulations the jurisdiction map lists for it being filtered out; and for
\* a jurisdiction other than "US", "US_CA" and "US_NY", "global" included,
\* it returns the empty list
C29_CaliforniaOnlyCcpaOthersEmpty ==
    Resolved =>
        /\ call.jurisdiction = "US_CA" =>
                /\ call.ret = <<"CCPA_CPRA">>
                /\ {"GLBA", "FCRA", "TILA", "EFTA", "NY_DFS"} \subseteq
                        SeedRegulations(jurisdiction_map, industry_map,
                                        call.jurisdiction, call.industry)
        /\ call.jurisdiction \notin {"US", "US_CA", "US_NY"} => call.ret = <<>>

\* the resolver answered <<"CCPA_CPRA">> for "US_CA", a financial industry
\* and a text with financial terms
C29_Witness ==
    /\ Resolved
    /\ call.jurisdiction = "US_CA"
    /\ call.industry = "financial"
    /\ Contains("loan", Lower(call.contract_text))
    /\ call.ret = <<"CCPA_CPRA">>

\* C30: the compliance score of every result is strictly greater than 0.2,
\* so it is never the floor 0.1, and it is decided by the number of missing
\* clauses alone, (m + 15) / (5m + 15) for m missing clauses: results with as
\* many missing clauses have the same score, however many clauses their
\* regulations require
C30_ScoreAboveFifth ==
    \A k \in 1..Len(results) :
        LET score == results[k].compliance_score
            m == Len(results[k].missing_clauses)
        IN  /\ RatLess(Rat(1, 5), score)
            /\ score # Rat(1, 10)
            /\ score.n * (5 * m + 15) = (m + 15) * score.d
            /\ \A j \in 1..Len(results) :
                    Len(results[j].missing_clauses) = m
                        => results[j].compliance_score = score

\* TILA, which requires one clause, and GLBA, which requires two, each with
\* one missing clause and both scored 0.8
C30_Witness ==
    /\ Len(results) = 2
    /\ results[1].regulation = "TILA"
    /\ results[2].regulation = "GLBA"
    /\ Len(regulatory_data["TILA"]) = 1
    /\ Len(regulatory_data["GLBA"]) = 2
    /\ Len(results[1].missing_clauses) = 1
    /\ Len(results[2].missing_clauses) = 1
    /\ results[1].compliance_score = Rat(4, 5)
    /\ results[2].compliance_score = Rat(4, 5)

\* the fields of a registry clause that a missing-clause entry carries
ClauseFields(c) ==
    [clause |-> c.clause, description |-> c.description, risk_level |-> c.risk_level,
     requirements |-> c.requirements, legal_citation |-> c.legal_citation]

\* C18: the detector has no hidden state: whatever the analysis did before
\* and between its calls (clause generation, service answers, enhancement,
\* earlier detections), each call decides a clause of the regulation missing
\* exactly when 5d + 3r + 2c < 10 on the registry as it was built and the
\* lower-cased text, so the list just returned and the missing clauses of
\* every result are these clauses in registry order, and two results for the
\* same regulation have the same missing clauses
C18_DetectorIsPure ==
    (pc = "loop" /\ idx >= 1) =>
        LET text == Lower(req.contract_text)
            below(clause_data) == Tenths(clause_data, text) < 10
            expected(regulation) ==
                IF regulation \in DOMAIN _initialize_commercial_regulations
                THEN SelectSeq(_initialize_commercial_regulations[regulation], below)
                ELSE <<>>
            entries(l) == [n \in 1..Len(l) |-> ClauseFields(l[n])]
        IN  /\ missing_clauses_data = expected(regulations[idx])
            /\ \A k \in 1..Len(results) :
                    entries(results[k].missing_clauses)
                        = entries(expected(results[k].regulation))
            /\ \A a, b \in 1..Len(results) :
                    results[a].regulation = results[b].regulation
                        => entries(results[a].missing_clauses)
                                = entries(results[b].missing_clauses)

\* GLBA was asked for twice in one analysis: the second detection came after
\* the first one's clause generation, in which the service answered, and
\* after its enhancement; both results miss the same two clauses though the
\* suggested texts differ
C18_Witness ==
    /\ pc = "loop"
    /\ regulations = <<"GLBA", "GLBA">>
    /\ Len(results) = 2
    /\ replies > 0
    /\ Len(results[1].missing_clauses) = 2
    /\ Len(missing_clauses_data) = 2
    /\ results[1].missing_clauses[1].clause = results[2].missing_clauses[1].clause
    /\ results[1].missing_clauses[1].suggested_text
            # results[2].missing_clauses[1].suggested_text

====
